---- MODULE Spec2Model ----
(***************************************************************************)
(* Model of the drag-and-drop dual-list column selector                    *)
(* (PragmaticDndWrapper, TS and JS variants, which agree statement by      *)
(* statement).  Strings that the code takes apart (item ids) are sequences *)
(* of tokens, so that id construction and prefix stripping are real        *)
(* conversions.  Indices are 0-based as in the source.                     *)
(***************************************************************************)
EXTENDS Integers, Sequences, FiniteSets, TLC

VARIABLES availableColumns, selectedColumns, phase, source, dropTargets,
          emitted, computed, call, pointer,
          isDragging, isDraggedOver, isOver,
          completion, script

vars == <<availableColumns, selectedColumns, phase, source, dropTargets,
          emitted, computed, call, pointer,
          isDragging, isDraggedOver, isOver,
          completion, script>>

visualVars == <<isDragging, isDraggedOver, isOver>>

otherVars == <<completion, script>>

----------------------------------------------------------------------------
(* Bounds and the column universe *)

MaxTargets == 2
MaxLen == 4

PREFIX == "draggable-"

A == <<"a">>
B == <<"b">>
C == <<"c">>
D == <<"draggable-", "d">>

Columns == {A, B, C, D}

Zones == {"available", "selected"}

undefined == "undefined"

undefinedItem == <<>>

NotFound == -1

----------------------------------------------------------------------------
(* JavaScript primitives used by the handler *)

Min(a, b) == IF a < b THEN a ELSE b

Max(a, b) == IF a > b THEN a ELSE b

get(data, field) == IF field \in DOMAIN data THEN data[field] ELSE undefined

indexOf(list, x) ==
  IF \E i \in 1..Len(list) : list[i] = x
  THEN (CHOOSE i \in 1..Len(list) :
          list[i] = x /\ \A j \in 1..(i - 1) : list[j] # x) - 1
  ELSE NotFound

splice(array, start, deleteCount, items) ==
  LET len == Len(array)
      actualStart == IF start < 0 THEN Max(len + start, 0) ELSE Min(start, len)
      actualDelete == Min(Max(deleteCount, 0), len - actualStart)
  IN  [array   |-> SubSeq(array, 1, actualStart) \o items
                     \o SubSeq(array, actualStart + actualDelete + 1, len),
       removed |-> SubSeq(array, actualStart + 1, actualStart + actualDelete)]

makeId(column) == <<PREFIX>> \o column

stripPrefix(id) ==
  IF \E i \in 1..Len(id) : id[i] = PREFIX
  THEN LET k == CHOOSE i \in 1..Len(id) :
                  id[i] = PREFIX /\ \A j \in 1..(i - 1) : id[j] # PREFIX
       IN  SubSeq(id, 1, k - 1) \o SubSeq(id, k + 1, Len(id))
  ELSE id

----------------------------------------------------------------------------
(* reorder and the insert branch work on a copy (Array.from, [...list]):   *)
(* each yields the argument array as the call leaves it (list) and the     *)
(* array it built (result).                                                *)

reorder_swap(list, startIndex, finishIndex) ==
  [list   |-> list,
   result |-> [i \in 1..Len(list) |->
                 IF i = startIndex + 1 THEN list[finishIndex + 1]
                 ELSE IF i = finishIndex + 1 THEN list[startIndex + 1]
                 ELSE list[i]]]

reorder_inplace(list, startIndex, finishIndex) ==
  LET s1 == splice(list, startIndex, 1, <<>>)
      removed == IF s1.removed = <<>> THEN undefinedItem ELSE s1.removed[1]
      s2 == splice(s1.array, finishIndex, 0, <<removed>>)
  IN  [list |-> s2.array, result |-> s2.array]

reorder(list, startIndex, finishIndex) ==
  LET result0 == list
      s1 == splice(result0, startIndex, 1, <<>>)
      removed == IF s1.removed = <<>> THEN undefinedItem ELSE s1.removed[1]
      s2 == splice(s1.array, finishIndex, 0, <<removed>>)
  IN  [list |-> list, result |-> s2.array]

insertAt_after(list, targetIndex, columnName) ==
  [list |-> list, result |-> splice(list, targetIndex + 1, 0, <<columnName>>).array]

insertAt(list, targetIndex, columnName) ==
  LET newSelectedColumns == list
  IN  [list   |-> list,
       result |-> splice(newSelectedColumns, targetIndex, 0, <<columnName>>).array]

----------------------------------------------------------------------------
(* Payloads handed to onDragEnd *)

reorderPayload_swapped(columnName, oldIndex, newIndex) ==
  [type |-> "reorder", column |-> columnName,
   oldIndex |-> newIndex, newIndex |-> oldIndex]

reorderPayload(columnName, oldIndex, newIndex) ==
  [type |-> "reorder", column |-> columnName,
   oldIndex |-> oldIndex, newIndex |-> newIndex]

insertPayload_after(columnName, sourceZone, targetIndex) ==
  [type |-> "insert", column |-> columnName,
   source |-> sourceZone, destinationIndex |-> targetIndex + 1]

insertPayload(columnName, sourceZone, targetIndex) ==
  [type |-> "insert", column |-> columnName,
   source |-> sourceZone, destinationIndex |-> targetIndex]

movePayload_withIndex(columnName, sourceZone) ==
  [type |-> "move", column |-> columnName, source |-> sourceZone,
   destinationIndex |-> 0]

movePayload_otherZone(columnName, sourceZone) ==
  [type |-> "move", column |-> columnName,
   source |-> IF sourceZone = "selected" THEN "available" ELSE "selected"]

movePayload(columnName, sourceZone) ==
  [type |-> "move", column |-> columnName, source |-> sourceZone]

----------------------------------------------------------------------------
(* The monitor's onDrop handler *)

noOutcome(selCols) ==
  [returned |-> FALSE, emitted |-> <<>>, computed |-> <<>>,
   selectedColumns |-> selCols]

itemRule_unguarded(columnName, sourceZone, destinationData, selCols) ==
  LET targetColumn == stripPrefix(destinationData.id)
  IN  IF sourceZone = "selected" /\ targetColumn # columnName
      THEN LET oldIndex == indexOf(selCols, columnName)
               newIndex == indexOf(selCols, targetColumn)
               r == reorder(selCols, oldIndex, newIndex)
           IN  [returned |-> TRUE,
                emitted  |-> <<reorderPayload(columnName, oldIndex, newIndex)>>,
                computed |-> <<r.result>>,
                selectedColumns |-> r.list]
      ELSE IF sourceZone = "available"
      THEN LET targetIndex == indexOf(selCols, targetColumn)
               r == insertAt(selCols, targetIndex, columnName)
           IN  [returned |-> TRUE,
                emitted  |-> <<insertPayload(columnName, sourceZone, targetIndex)>>,
                computed |-> <<r.result>>,
                selectedColumns |-> r.list]
      ELSE noOutcome(selCols)

itemRule(columnName, sourceZone, destinationData, selCols) ==
  LET targetColumn == stripPrefix(destinationData.id)
  IN  IF sourceZone = "selected" /\ targetColumn # columnName
      THEN LET oldIndex == indexOf(selCols, columnName)
               newIndex == indexOf(selCols, targetColumn)
           IN  IF oldIndex # NotFound /\ newIndex # NotFound
               THEN LET r == reorder(selCols, oldIndex, newIndex)
                    IN  [returned |-> TRUE,
                         emitted  |-> <<reorderPayload(columnName, oldIndex, newIndex)>>,
                         computed |-> <<r.result>>,
                         selectedColumns |-> r.list]
               ELSE noOutcome(selCols)
      ELSE IF sourceZone = "available"
      THEN LET targetIndex == indexOf(selCols, targetColumn)
           IN  IF targetIndex # NotFound
               THEN LET r == insertAt(selCols, targetIndex, columnName)
                    IN  [returned |-> TRUE,
                         emitted  |-> <<insertPayload(columnName, sourceZone, targetIndex)>>,
                         computed |-> <<r.result>>,
                         selectedColumns |-> r.list]
               ELSE noOutcome(selCols)
      ELSE noOutcome(selCols)

zoneRule_always(columnName, sourceZone, destinationData) ==
  <<movePayload(columnName, sourceZone)>>

zoneRule(columnName, sourceZone, destinationData) ==
  IF get(destinationData, "zoneId") # undefined
  THEN <<movePayload(columnName, sourceZone)>>
  ELSE <<>>

onDrop_noReturn(sourceData, targets, selCols) ==
  LET destinationData == targets[1].data
      columnName == stripPrefix(sourceData.id)
      item == IF get(destinationData, "type") = "sortable-item"
              THEN itemRule(columnName, sourceData.sourceZone, destinationData, selCols)
              ELSE noOutcome(selCols)
  IN  IF targets = <<>> THEN noOutcome(selCols)
      ELSE [item EXCEPT !.emitted =
              @ \o IF \E i \in 1..Len(targets) : get(targets[i].data, "zoneId") # undefined
                   THEN <<movePayload(columnName, sourceData.sourceZone)>>
                   ELSE <<>>]

onDrop_noDestinationGuard(sourceData, targets, selCols) ==
  LET columnName == stripPrefix(sourceData.id)
  IN  IF targets = <<>>
      THEN [noOutcome(selCols) EXCEPT
              !.emitted = <<movePayload(columnName, sourceData.sourceZone)>>]
      ELSE LET destinationData == targets[1].data
               item == IF get(destinationData, "type") = "sortable-item"
                       THEN itemRule(columnName, sourceData.sourceZone,
                                     destinationData, selCols)
                       ELSE noOutcome(selCols)
           IN  IF item.returned THEN item
               ELSE [item EXCEPT !.emitted =
                       zoneRule(columnName, sourceData.sourceZone, destinationData)]

onDrop(sourceData, targets, selCols) ==
  IF targets = <<>>
  THEN noOutcome(selCols)
  ELSE LET destinationData == targets[1].data
           sourceId == sourceData.id
           sourceZone == sourceData.sourceZone
           columnName == stripPrefix(sourceId)
           item == IF get(destinationData, "type") = "sortable-item"
                   THEN itemRule(columnName, sourceZone, destinationData, selCols)
                   ELSE noOutcome(selCols)
       IN  IF item.returned
           THEN item
           ELSE [item EXCEPT !.emitted =
                   zoneRule(columnName, sourceZone, destinationData)]

----------------------------------------------------------------------------
(* Data attached by the registered draggables and drop targets *)

dragData(column, zone) ==
  [id |-> makeId(column), sourceZone |-> zone, type |-> "draggable-item"]

itemTarget(column, zone) ==
  [data |-> [id |-> makeId(column), type |-> "sortable-item", sourceZone |-> zone]]

zoneId(zone) ==
  IF zone = "available" THEN "available-droppable" ELSE "selected-droppable"

zoneTarget(zone) == [data |-> [zoneId |-> zoneId(zone)]]

NoSource == [id |-> <<>>, sourceZone |-> "none", type |-> "none"]

----------------------------------------------------------------------------
(* The host's lists: disjoint, no column twice *)

RECURSIVE SeqsUpTo(_, _)
SeqsUpTo(S, n) ==
  IF n = 0 THEN {<<>>}
  ELSE LET shorter == SeqsUpTo(S, n - 1)
       IN  shorter \cup {Append(s, x) : s \in shorter, x \in S}

Range(s) == {s[i] : i \in 1..Len(s)}

NoDuplicates(s) == \A i, j \in 1..Len(s) : i # j => s[i] # s[j]

ColumnLists == {s \in SeqsUpTo(Columns, Cardinality(Columns)) : NoDuplicates(s)}

NoColumn == <<>>

NoPointer == [over |-> "none", zone |-> "none", column |-> NoColumn]

NoCall == [startIndex |-> NotFound, finishIndex |-> NotFound]

NoCompletion == [used |-> FALSE]

NoScript == [used |-> FALSE]

NoGesture ==
  /\ phase = "idle"
  /\ source = NoSource
  /\ dropTargets = <<>>
  /\ emitted = <<>>
  /\ computed = <<>>
  /\ call = NoCall
  /\ pointer = NoPointer
  /\ isDragging = {}
  /\ isDraggedOver = {}
  /\ isOver = {}

Init ==
  /\ selectedColumns \in ColumnLists
  /\ availableColumns \in {s \in ColumnLists : Range(s) \cap Range(selectedColumns) = {}}
  /\ NoGesture
  /\ completion = NoCompletion
  /\ script = NoScript

----------------------------------------------------------------------------
(* Spec: the handler under every drop event the page-wide monitor can deliver *)

TargetRecords ==
  {itemTarget(c, "selected") : c \in Columns} \cup {zoneTarget(z) : z \in Zones}

DropEvent ==
  /\ phase = "idle"
  /\ \E c \in Columns, z \in Zones, targets \in SeqsUpTo(TargetRecords, MaxTargets) :
       LET out == onDrop(dragData(c, z), targets, selectedColumns)
       IN  /\ source' = dragData(c, z)
           /\ dropTargets' = targets
           /\ emitted' = out.emitted
           /\ computed' = out.computed
           /\ selectedColumns' = out.selectedColumns
  /\ phase' = "dropped"
  /\ UNCHANGED <<availableColumns, call, pointer, visualVars, otherVars>>

NextGesture ==
  /\ phase = "dropped"
  /\ phase' = "idle"
  /\ source' = NoSource
  /\ dropTargets' = <<>>
  /\ emitted' = <<>>
  /\ computed' = <<>>
  /\ pointer' = NoPointer
  /\ UNCHANGED <<availableColumns, selectedColumns, call, visualVars, otherVars>>

Next == DropEvent \/ NextGesture

Spec == Init /\ [][Next]_vars

----------------------------------------------------------------------------
(* WidgetSpec: whole gestures on the rendered widget, the host applying *)
(* every emitted operation before the next gesture                      *)

itemRegistered_always(zone) == TRUE

itemRegistered(zone) == zone = "selected"

canDrop_any(sourceData, id) == TRUE

canDrop(sourceData, id) == sourceData.id # id

Pointers(avail, sel) ==
  {[over |-> "outside", zone |-> "none", column |-> NoColumn]}
  \cup {[over |-> "zone", zone |-> z, column |-> NoColumn] : z \in Zones}
  \cup {[over |-> "item", zone |-> "available", column |-> c] : c \in Range(avail)}
  \cup {[over |-> "item", zone |-> "selected", column |-> c] : c \in Range(sel)}

resolveDropTargets(releasedOver, sourceData) ==
  LET itemPart == IF /\ releasedOver.over = "item"
                     /\ itemRegistered(releasedOver.zone)
                     /\ canDrop(sourceData, makeId(releasedOver.column))
                  THEN <<itemTarget(releasedOver.column, releasedOver.zone)>>
                  ELSE <<>>
      zonePart == IF releasedOver.over \in {"item", "zone"}
                  THEN <<zoneTarget(releasedOver.zone)>>
                  ELSE <<>>
  IN  itemPart \o zonePart

(* Component-local visual state: the item instances (zone, id) whose     *)
(* isDragging / isDraggedOver flag is true, the zone ids whose isOver is   *)
(* true.  A drop target's callbacks run for the targets the pointer        *)
(* entered, left or was released on.                                       *)

instance(zone, id) == [zone |-> zone, id |-> id]

itemInstances(targets) ==
  {instance(targets[i].data.sourceZone, targets[i].data.id) :
     i \in {j \in 1..Len(targets) : "id" \in DOMAIN targets[j].data}}

zoneInstances(targets) ==
  {targets[i].data.zoneId :
     i \in {j \in 1..Len(targets) : "zoneId" \in DOMAIN targets[j].data}}

onDragStart(flags, item) == flags \cup {item}

draggableOnDrop_keeps(flags, item) == flags

draggableOnDrop(flags, item) == flags \ {item}

onDragEnterLeave(flags, previous, current) ==
  (flags \ (previous \ current)) \cup (current \ previous)

targetOnDrop_keeps(flags, current) == flags

targetOnDrop(flags, current) == flags \ current

rendered(avail, sel) ==
  {instance("available", makeId(c)) : c \in Range(avail)}
  \cup {instance("selected", makeId(c)) : c \in Range(sel)}

DragStart ==
  /\ phase = "idle"
  /\ \E z \in Zones :
       \E c \in Range(IF z = "available" THEN availableColumns ELSE selectedColumns) :
         LET over == [over |-> "item", zone |-> z, column |-> c]
         IN  /\ source' = dragData(c, z)
             /\ pointer' = over
             /\ dropTargets' = resolveDropTargets(over, dragData(c, z))
             /\ isDragging' = onDragStart(isDragging, instance(z, makeId(c)))
  /\ phase' = "dragging"
  /\ emitted' = <<>>
  /\ computed' = <<>>
  /\ UNCHANGED <<availableColumns, selectedColumns, call, isDraggedOver, isOver,
                 otherVars>>

PointerMove ==
  /\ phase = "dragging"
  /\ \E movedOver \in Pointers(availableColumns, selectedColumns) \ {pointer} :
       LET targets == resolveDropTargets(movedOver, source)
       IN  /\ pointer' = movedOver
           /\ dropTargets' = targets
           /\ isDraggedOver' = onDragEnterLeave(isDraggedOver,
                                  itemInstances(dropTargets), itemInstances(targets))
           /\ isOver' = onDragEnterLeave(isOver,
                           zoneInstances(dropTargets), zoneInstances(targets))
  /\ UNCHANGED <<availableColumns, selectedColumns, phase, source, emitted, computed,
                 call, isDragging, otherVars>>

Release ==
  /\ phase = "dragging"
  /\ \E releasedOver \in Pointers(availableColumns, selectedColumns) :
       LET targets == resolveDropTargets(releasedOver, source)
           out == onDrop(source, targets, selectedColumns)
       IN  /\ pointer' = releasedOver
           /\ dropTargets' = targets
           /\ emitted' = out.emitted
           /\ computed' = out.computed
           /\ selectedColumns' = out.selectedColumns
           /\ isDragging' = draggableOnDrop(isDragging,
                               instance(source.sourceZone, source.id))
           /\ isDraggedOver' =
                targetOnDrop(onDragEnterLeave(isDraggedOver, itemInstances(dropTargets),
                                              itemInstances(targets)),
                             itemInstances(targets))
           /\ isOver' =
                targetOnDrop(onDragEnterLeave(isOver, zoneInstances(dropTargets),
                                              zoneInstances(targets)),
                             zoneInstances(targets))
  /\ phase' = "dropped"
  /\ UNCHANGED <<availableColumns, source, call, otherVars>>

remove(list, x) == SelectSeq(list, LAMBDA e : e # x)

zoneOfId(id) == IF id = "available-droppable" THEN "available" ELSE "selected"

hostApply(op, targets, avail, sel) ==
  IF op.type = "reorder"
  THEN [availableColumns |-> avail,
        selectedColumns  |-> reorder(sel, op.oldIndex, op.newIndex).result]
  ELSE IF op.type = "insert"
  THEN [availableColumns |-> remove(avail, op.column),
        selectedColumns  |-> splice(sel, op.destinationIndex, 0, <<op.column>>).array]
  ELSE LET droppedOn == zoneOfId(targets[1].data.zoneId)
           avail1 == IF op.source = "available" THEN remove(avail, op.column) ELSE avail
           sel1   == IF op.source = "selected" THEN remove(sel, op.column) ELSE sel
       IN  [availableColumns |-> IF droppedOn = "available"
                                 THEN Append(avail1, op.column) ELSE avail1,
            selectedColumns  |-> IF droppedOn = "selected"
                                 THEN Append(sel1, op.column) ELSE sel1]

HostApply ==
  /\ phase = "dropped"
  /\ emitted # <<>>
  /\ LET after == hostApply(emitted[1], dropTargets, availableColumns, selectedColumns)
     IN  /\ availableColumns' = after.availableColumns
         /\ selectedColumns' = after.selectedColumns
  /\ isDragging' = isDragging \cap rendered(availableColumns', selectedColumns')
  /\ isDraggedOver' = isDraggedOver \cap rendered(availableColumns', selectedColumns')
  /\ phase' = "applied"
  /\ UNCHANGED <<source, dropTargets, emitted, computed, call, pointer, isOver,
                 otherVars>>

GestureOver ==
  /\ \/ phase = "applied"
     \/ phase = "dropped" /\ emitted = <<>>
  /\ phase' = "idle"
  /\ source' = NoSource
  /\ dropTargets' = <<>>
  /\ emitted' = <<>>
  /\ computed' = <<>>
  /\ pointer' = NoPointer
  /\ UNCHANGED <<availableColumns, selectedColumns, call, visualVars, otherVars>>

WidgetNext == DragStart \/ PointerMove \/ Release \/ HostApply \/ GestureOver

WidgetSpec == Init /\ [][WidgetNext]_vars

----------------------------------------------------------------------------
(* ReorderSpec: reorder applied to every list and every pair of indices *)

ReorderInit ==
  /\ selectedColumns \in SeqsUpTo({A, B, C}, MaxLen)
  /\ availableColumns = <<>>
  /\ NoGesture
  /\ completion = NoCompletion
  /\ script = NoScript

ReorderCall ==
  /\ phase = "idle"
  /\ \E startIndex, finishIndex \in 0..(Len(selectedColumns) - 1) :
       LET r == reorder(selectedColumns, startIndex, finishIndex)
       IN  /\ call' = [startIndex |-> startIndex, finishIndex |-> finishIndex]
           /\ computed' = <<r.result>>
           /\ selectedColumns' = r.list
  /\ phase' = "called"
  /\ UNCHANGED <<availableColumns, source, dropTargets, emitted, pointer,
                 visualVars, otherVars>>

ReorderNext == ReorderCall

ReorderSpec == ReorderInit /\ [][ReorderNext]_vars

----------------------------------------------------------------------------
(* CompletionSpec: the autocomplete completion source on every short line *)

MaxDoc == 3

Chars == {"a", "_", " ", "("}

isWordChar(ch) == ch \in {"a", "_"}

keywords ==
  <<
    [label |-> "Age", type |-> "function"],
    [label |-> "Sex", type |-> "function"],
    [label |-> "LabValue", type |-> "function"],
    [label |-> "PrimaryTumor", type |-> "function"],
    [label |-> "Histology", type |-> "function"],
    [label |-> "MolecularBiomarker", type |-> "function"],
    [label |-> "GeneAlteration", type |-> "function"],
    [label |-> "MolecularSignature", type |-> "function"],
    [label |-> "DiagnosticFinding", type |-> "function"],
    [label |-> "Metastases", type |-> "function"],
    [label |-> "Comorbidity", type |-> "function"],
    [label |-> "PriorTreatment", type |-> "function"],
    [label |-> "CurrentTreatment", type |-> "function"],
    [label |-> "TreatmentOption", type |-> "function"],
    [label |-> "Contraindication", type |-> "function"],
    [label |-> "ClinicalJudgement", type |-> "function"],
    [label |-> "ReproductiveStatus", type |-> "function"],
    [label |-> "Infection", type |-> "function"],
    [label |-> "Symptom", type |-> "function"],
    [label |-> "PerformanceStatus", type |-> "function"],
    [label |-> "LifeExpectancy", type |-> "function"],
    [label |-> "RequiredAction", type |-> "function"],
    [label |-> "TissueAvailability", type |-> "function"],
    [label |-> "Other", type |-> "function"],
    [label |-> "And", type |-> "function"],
    [label |-> "Or", type |-> "function"],
    [label |-> "Not", type |-> "function"],
    [label |-> "If", type |-> "function"],
    [label |-> "Timing", type |-> "function"],
    [label |-> "description", type |-> "property"],
    [label |-> "finding", type |-> "property"],
    [label |-> "method", type |-> "property"],
    [label |-> "treatment", type |-> "property"]
  >>

VALID_FOR == "^\\w*$"

regexTest(regex, text) ==
  /\ regex = VALID_FOR
  /\ \A i \in 1..Len(text) : isWordChar(text[i])

matchBefore(context) ==
  LET str == SubSeq(context.doc, 1, context.pos)
      starts == {i \in 0..Len(str) : \A j \in (i + 1)..Len(str) : isWordChar(str[j])}
  IN  IF starts = {}
      THEN <<>>
      ELSE LET found == CHOOSE i \in starts : \A k \in starts : i <= k
           IN  <<[from |-> found, to |-> context.pos,
                  text |-> SubSeq(str, found + 1, Len(str))]>>

myCompletionSource_ignoresExplicit(context) ==
  LET word == matchBefore(context)
  IN  IF word = <<>> \/ word[1].from = word[1].to
      THEN <<>>
      ELSE <<[from |-> word[1].from, options |-> keywords, validFor |-> VALID_FOR]>>

myCompletionSource(context) ==
  LET word == matchBefore(context)
  IN  IF word = <<>> \/ (word[1].from = word[1].to /\ ~context.explicit)
      THEN <<>>
      ELSE <<[from |-> word[1].from, options |-> keywords, validFor |-> VALID_FOR]>>

CompletionInit ==
  /\ selectedColumns = <<>>
  /\ availableColumns = <<>>
  /\ NoGesture
  /\ script = NoScript
  /\ \E doc \in SeqsUpTo(Chars, MaxDoc), explicit \in BOOLEAN :
       \E pos \in 0..Len(doc) :
         completion = [used |-> TRUE, doc |-> doc, pos |-> pos, explicit |-> explicit,
                       returned |-> FALSE, result |-> <<>>]

Complete ==
  /\ completion.used
  /\ ~completion.returned
  /\ completion' = [completion EXCEPT !.returned = TRUE,
                                      !.result = myCompletionSource(completion)]
  /\ UNCHANGED <<availableColumns, selectedColumns, phase, source, dropTargets,
                 emitted, computed, call, pointer, visualVars, script>>

CompletionNext == Complete

CompletionSpec == CompletionInit /\ [][CompletionNext]_vars

----------------------------------------------------------------------------
(* ScriptSpec: runs of actin_curator.sh against a file system               *)

MaxArgs == 2
MaxRuns == 2

NoStatus == -1
HomeDir == "$HOME/hmf/tmp/actin_data"
ChosenDir == "$2"
NoMount == "none"

in_dir(dir) == <<dir, "input">>
out_dir(dir) == <<dir, "output">>

Directories == {in_dir(HomeDir), out_dir(HomeDir), in_dir(ChosenDir), out_dir(ChosenDir)}

exit(s, code) == [s EXCEPT !.pc = "exited", !.exitCode = code]

die(s) == exit(s, 1)

startRun(s, argc) ==
  [s EXCEPT !.run = @ + 1, !.argc = argc, !.pc = "source", !.keyRetrieved = FALSE,
            !.dockerStarted = FALSE, !.mountSrc = NoMount, !.dockerExit = NoStatus,
            !.jqRan = FALSE, !.exitCode = NoStatus]

ScriptUnchanged ==
  UNCHANGED <<availableColumns, selectedColumns, phase, source, dropTargets,
              emitted, computed, call, pointer, visualVars, completion>>

ScriptInit ==
  /\ selectedColumns = <<>>
  /\ availableColumns = <<>>
  /\ NoGesture
  /\ completion = NoCompletion
  /\ \E argc \in 0..MaxArgs, dirs \in SUBSET Directories, pasteFile \in BOOLEAN :
       \E criteriaFiles \in SUBSET (dirs \cap {in_dir(HomeDir)}) :
         script = [used |-> TRUE, run |-> 1, argc |-> argc, pc |-> "source",
                   dirs |-> dirs, pasteFile |-> pasteFile, criteriaFiles |-> criteriaFiles,
                   keyRetrieved |-> FALSE, dockerStarted |-> FALSE, mountSrc |-> NoMount,
                   dockerExit |-> NoStatus, jqRan |-> FALSE, exitCode |-> NoStatus]

SourceFunctions ==
  /\ script.used
  /\ script.pc = "source"
  /\ \E found \in BOOLEAN :
       script' = IF found THEN [script EXCEPT !.pc = "args"] ELSE exit(script, 1)
  /\ ScriptUnchanged

CheckArgs ==
  /\ script.used
  /\ script.pc = "args"
  /\ script' = IF script.argc = 1 THEN [script EXCEPT !.pc = "mkdir"] ELSE die(script)
  /\ ScriptUnchanged

MakeDirs ==
  /\ script.used
  /\ script.pc = "mkdir"
  /\ LET wanted == <<in_dir(HomeDir), out_dir(HomeDir)>>
     IN  \E created \in 0..Len(wanted) :
           /\ created < Len(wanted) => wanted[created + 1] \notin script.dirs
           /\ script' =
                LET made == [script EXCEPT !.dirs = @ \cup {wanted[i] : i \in 1..created}]
                IN  IF created = Len(wanted)
                    THEN [made EXCEPT !.pc = "input"]
                    ELSE die(made)
  /\ ScriptUnchanged

PlaceInput ==
  /\ script.used
  /\ script.pc = "input"
  /\ \/ /\ script.pasteFile
        /\ \E moved \in BOOLEAN :
             script' = IF moved
                       THEN [script EXCEPT !.pasteFile = FALSE,
                                           !.criteriaFiles = @ \cup {in_dir(HomeDir)},
                                           !.pc = "key"]
                       ELSE [script EXCEPT !.pc = "key"]
     \/ /\ ~script.pasteFile
        /\ script' = IF in_dir(HomeDir) \in script.criteriaFiles
                     THEN [script EXCEPT !.pc = "key"]
                     ELSE die(script)
  /\ ScriptUnchanged

RetrieveKey ==
  /\ script.used
  /\ script.pc = "key"
  /\ \E status \in {0, 1} :
       script' = IF status # 0
                 THEN die(script)
                 ELSE [script EXCEPT !.keyRetrieved = TRUE, !.pc = "docker"]
  /\ ScriptUnchanged

RunContainer ==
  /\ script.used
  /\ script.pc = "docker"
  /\ \E status \in {0, 1} :
       script' = [script EXCEPT !.dockerStarted = TRUE, !.mountSrc = HomeDir,
                                !.dockerExit = status, !.pc = "status"]
  /\ ScriptUnchanged

CheckContainer ==
  /\ script.used
  /\ script.pc = "status"
  /\ script' = IF script.dockerExit = 0
               THEN [script EXCEPT !.pc = "reformat"]
               ELSE die(script)
  /\ ScriptUnchanged

Reformat ==
  /\ script.used
  /\ script.pc = "reformat"
  /\ script' = exit([script EXCEPT !.jqRan = TRUE], 0)
  /\ ScriptUnchanged

CopyCriteria ==
  /\ script.used
  /\ script.pc = "exited"
  /\ \E dir \in (script.dirs \cap {in_dir(HomeDir), in_dir(ChosenDir)}) \ script.criteriaFiles :
       script' = [script EXCEPT !.criteriaFiles = @ \cup {dir}]
  /\ ScriptUnchanged

RunAgain ==
  /\ script.used
  /\ script.pc = "exited"
  /\ script.run < MaxRuns
  /\ script' = startRun(script, script.argc)
  /\ ScriptUnchanged

ScriptNext ==
  \/ SourceFunctions
  \/ CheckArgs
  \/ MakeDirs
  \/ PlaceInput
  \/ RetrieveKey
  \/ RunContainer
  \/ CheckContainer
  \/ Reformat
  \/ CopyCriteria
  \/ RunAgain

ScriptSpec == ScriptInit /\ [][ScriptNext]_vars

----------------------------------------------------------------------------
(* Vocabulary of the properties.  A rendered item's id is the prefix token *)
(* followed by the column key (`draggable-${column}`).                     *)

DraggedColumn == Tail(source.id)

FirstIsItem ==
  /\ dropTargets # <<>>
  /\ "type" \in DOMAIN dropTargets[1].data
  /\ dropTargets[1].data.type = "sortable-item"

FirstIsZone ==
  /\ dropTargets # <<>>
  /\ "zoneId" \in DOMAIN dropTargets[1].data
  /\ "type" \notin DOMAIN dropTargets[1].data

TargetColumn == Tail(dropTargets[1].data.id)

HasZoneTarget ==
  \E i \in 1..Len(dropTargets) : "zoneId" \in DOMAIN dropTargets[i].data

Occurrences(list, x) == Cardinality({i \in 1..Len(list) : list[i] = x})

RemoveAt(list, k) == SubSeq(list, 1, k - 1) \o SubSeq(list, k + 1, Len(list))

----------------------------------------------------------------------------
(* C1: a drop of a selected item on a different selected item, both in     *)
(* selectedColumns, emits exactly reorder(dragged column, index of the     *)
(* dragged column, index of the target column), and nothing else.          *)
C1_ReorderEmitted ==
  ( /\ phase = "dropped"
    /\ source.sourceZone = "selected"
    /\ FirstIsItem
    /\ TargetColumn # DraggedColumn
    /\ DraggedColumn \in Range(selectedColumns)
    /\ TargetColumn \in Range(selectedColumns) )
  => /\ Len(emitted) = 1
     /\ DOMAIN emitted[1] = {"type", "column", "oldIndex", "newIndex"}
     /\ emitted[1].type = "reorder"
     /\ emitted[1].column = DraggedColumn
     /\ emitted[1].oldIndex \in 0..(Len(selectedColumns) - 1)
     /\ selectedColumns[emitted[1].oldIndex + 1] = DraggedColumn
     /\ emitted[1].newIndex \in 0..(Len(selectedColumns) - 1)
     /\ selectedColumns[emitted[1].newIndex + 1] = TargetColumn

C1_Witness ==
  /\ phase = "dropped"
  /\ selectedColumns = <<A, B, C>>
  /\ source = dragData(B, "selected")
  /\ FirstIsItem
  /\ TargetColumn = A
  /\ emitted = <<[type |-> "reorder", column |-> B, oldIndex |-> 1, newIndex |-> 0]>>
  /\ computed = << <<B, A, C>> >>

(* C2: for distinct in-range indices reorder returns a list of the same    *)
(* length with the moved element at finishIndex and all other elements in  *)
(* their original relative order (a single-element move).                  *)
C2_ReorderIsMove ==
  ( /\ phase = "called"
    /\ call.startIndex # call.finishIndex )
  => /\ Len(computed) = 1
     /\ Len(computed[1]) = Len(selectedColumns)
     /\ computed[1][call.finishIndex + 1] = selectedColumns[call.startIndex + 1]
     /\ RemoveAt(computed[1], call.finishIndex + 1)
          = RemoveAt(selectedColumns, call.startIndex + 1)

C2_Witness ==
  /\ phase = "called"
  /\ selectedColumns = <<A, B, C, A>>
  /\ call = [startIndex |-> 0, finishIndex |-> 2]
  /\ computed = << <<B, C, A, A>> >>

(* C3: a drop of an available item on a selected item found at targetIndex *)
(* emits exactly insert(column, available, targetIndex); the list computed *)
(* is one longer, holds the column once, at targetIndex, and everything    *)
(* from targetIndex on is shifted right by one.                            *)
C3_InsertEmitted ==
  ( /\ phase = "dropped"
    /\ source.sourceZone = "available"
    /\ FirstIsItem
    /\ TargetColumn \in Range(selectedColumns) )
  => /\ Len(emitted) = 1
     /\ DOMAIN emitted[1] = {"type", "column", "source", "destinationIndex"}
     /\ emitted[1].type = "insert"
     /\ emitted[1].column = DraggedColumn
     /\ emitted[1].source = "available"
     /\ emitted[1].destinationIndex \in 0..(Len(selectedColumns) - 1)
     /\ selectedColumns[emitted[1].destinationIndex + 1] = TargetColumn
     /\ Len(computed) = 1
     /\ LET k == emitted[1].destinationIndex
            result == computed[1]
        IN  /\ Len(result) = Len(selectedColumns) + 1
            /\ result[k + 1] = DraggedColumn
            /\ Occurrences(result, DraggedColumn) = 1
            /\ \A i \in 1..k : result[i] = selectedColumns[i]
            /\ \A i \in (k + 1)..Len(selectedColumns) : result[i + 1] = selectedColumns[i]

C3_Witness ==
  /\ phase = "dropped"
  /\ availableColumns = <<D>>
  /\ selectedColumns = <<A, B, C>>
  /\ source = dragData(D, "available")
  /\ pointer = [over |-> "item", zone |-> "selected", column |-> B]
  /\ emitted = <<[type |-> "insert", column |-> D, source |-> "available",
                  destinationIndex |-> 1]>>
  /\ computed = << <<A, D, B, C>> >>

(* C4: a drop whose first target is a zone emits exactly                   *)
(* move(dragged column, the payload's sourceZone), with no index field.    *)
C4_MoveEmitted ==
  ( /\ phase = "dropped"
    /\ FirstIsZone )
  => emitted = <<[type |-> "move", column |-> DraggedColumn,
                  source |-> source.sourceZone]>>

C4_Witness ==
  /\ phase = "dropped"
  /\ availableColumns = <<D>>
  /\ selectedColumns = <<A, B>>
  /\ source = dragData(D, "available")
  /\ dropTargets = <<zoneTarget("selected")>>
  /\ emitted = <<[type |-> "move", column |-> D, source |-> "available"]>>

(* C5: a release with no resolved drop target emits nothing and leaves     *)
(* both collections as they were.                                          *)
C5_NoTargetNoOp ==
  [][ ( /\ phase = "dragging"
        /\ phase' = "dropped"
        /\ dropTargets' = <<>> )
      => /\ emitted' = <<>>
         /\ availableColumns' = availableColumns
         /\ selectedColumns' = selectedColumns ]_vars

C5_Witness ==
  /\ phase = "dropped"
  /\ selectedColumns = <<A, B>>
  /\ source = dragData(A, "selected")
  /\ pointer.over = "outside"
  /\ dropTargets = <<>>
  /\ emitted = <<>>

(* C6: a selected item released over itself is a no-op: nothing is emitted *)
C6_SelfDropNoOp ==
  ( /\ phase = "dropped"
    /\ source.sourceZone = "selected"
    /\ pointer.over = "item"
    /\ pointer.zone = "selected"
    /\ pointer.column = DraggedColumn )
  => emitted = <<>>

(* C7: a drop invokes onDragEnd at most once, with a reorder, an insert or *)
(* a move.                                                                 *)
C7_AtMostOneOperation ==
  phase = "dropped"
  => /\ Len(emitted) <= 1
     /\ \A i \in 1..Len(emitted) : emitted[i].type \in {"reorder", "insert", "move"}

C7_Witness ==
  /\ phase = "dropped"
  /\ selectedColumns = <<A, B>>
  /\ source = dragData(B, "selected")
  /\ dropTargets = <<itemTarget(A, "selected"), zoneTarget("selected")>>
  /\ Len(emitted) = 1
  /\ emitted[1].type = "reorder"

(* The item-level guards fail on the first target: a selected item whose   *)
(* lookup fails, or an available item whose target column is not found.    *)
ItemGuardsFail ==
  /\ FirstIsItem
  /\ \/ /\ source.sourceZone = "selected"
        /\ TargetColumn # DraggedColumn
        /\ \/ DraggedColumn \notin Range(selectedColumns)
           \/ TargetColumn \notin Range(selectedColumns)
     \/ /\ source.sourceZone = "available"
        /\ TargetColumn \notin Range(selectedColumns)

(* C8 as stated: with failing item-level guards and a zone-level target    *)
(* also under the pointer, move(columnName, sourceZone) is emitted.        *)
C8_ZoneStillChecked ==
  ( /\ phase = "dropped"
    /\ ItemGuardsFail
    /\ HasZoneTarget )
  => emitted = <<[type |-> "move", column |-> DraggedColumn,
                  source |-> source.sourceZone]>>

(* C8 amended: with failing item-level guards nothing is emitted, whether  *)
(* or not a zone-level target is also among the resolved targets; the zone *)
(* rule only looks at the first target.                                    *)
C8_FirstTargetOnly ==
  ( /\ phase = "dropped"
    /\ ItemGuardsFail )
  => emitted = <<>>

C8_Witness ==
  /\ phase = "dropped"
  /\ selectedColumns = <<A, B>>
  /\ source = dragData(D, "available")
  /\ dropTargets = <<itemTarget(C, "selected"), zoneTarget("selected")>>
  /\ emitted = <<>>

----------------------------------------------------------------------------
(* The lists before and after the host applies a move *)

DroppedOnZone ==
  IF dropTargets[1].data.zoneId = "selected-droppable" THEN "selected" ELSE "available"

MoveApplied ==
  /\ phase = "dropped"
  /\ phase' = "applied"
  /\ emitted[1].type = "move"

SourceBefore ==
  IF source.sourceZone = "available" THEN availableColumns ELSE selectedColumns

SourceAfter ==
  IF source.sourceZone = "available" THEN availableColumns' ELSE selectedColumns'

DestinationBefore ==
  IF DroppedOnZone = "available" THEN availableColumns ELSE selectedColumns

DestinationAfter ==
  IF DroppedOnZone = "available" THEN availableColumns' ELSE selectedColumns'

(* C9 as stated: after every applied move the column is last in the        *)
(* destination list, the source list is one shorter and the destination    *)
(* list one longer, also when the item is dropped on its own zone.         *)
C9_MoveAppends ==
  [][ MoveApplied
      => /\ DestinationAfter # <<>>
         /\ DestinationAfter[Len(DestinationAfter)] = DraggedColumn
         /\ Len(SourceAfter) = Len(SourceBefore) - 1
         /\ Len(DestinationAfter) = Len(DestinationBefore) + 1 ]_vars

(* C9 amended: after every applied move the column is the last element of  *)
(* the list of the zone dropped on; if that zone is not the source zone    *)
(* the source list is one shorter and the destination list one longer; if  *)
(* it is the source zone the list keeps its length and the column moves to *)
(* its end.                                                                *)
C9_MoveAppendsAcrossZones ==
  [][ MoveApplied
      => /\ DestinationAfter
              = SelectSeq(DestinationBefore, LAMBDA e : e # DraggedColumn)
                  \o <<DraggedColumn>>
         /\ DroppedOnZone # source.sourceZone
              => /\ Len(SourceAfter) = Len(SourceBefore) - 1
                 /\ Len(DestinationAfter) = Len(DestinationBefore) + 1
                 /\ DestinationAfter = Append(DestinationBefore, DraggedColumn)
                 /\ DraggedColumn \notin Range(SourceAfter)
         /\ DroppedOnZone = source.sourceZone
              => Len(DestinationAfter) = Len(DestinationBefore) ]_vars

C9_Witness ==
  /\ phase = "applied"
  /\ source = dragData(D, "available")
  /\ dropTargets = <<zoneTarget("selected")>>
  /\ emitted = <<[type |-> "move", column |-> D, source |-> "available"]>>
  /\ availableColumns = <<>>
  /\ selectedColumns = <<A, B, D>>

(* C10: no drop changes the host's availableColumns or selectedColumns;    *)
(* the lists the handler computes are separate values.                     *)
C10_ListsNotMutated ==
  [][ ( /\ phase = "idle"
        /\ phase' = "dropped" )
      => /\ availableColumns' = availableColumns
         /\ selectedColumns' = selectedColumns ]_vars

C10_Witness ==
  /\ phase = "dropped"
  /\ availableColumns = <<D>>
  /\ selectedColumns = <<A, B, C>>
  /\ emitted = <<[type |-> "reorder", column |-> C, oldIndex |-> 2, newIndex |-> 0]>>
  /\ computed = << <<C, A, B>> >>

----------------------------------------------------------------------------
(* The index fields an emitted operation carries *)

IndexFields == {"oldIndex", "newIndex", "destinationIndex"}

IndicesOf(op) == {op[f] : f \in IndexFields \cap DOMAIN op}

(* C11: when an index lookup fails on the first target the drop emits      *)
(* nothing (the zone rule does not apply to an item descriptor), computes  *)
(* no list and leaves both collections unchanged; no emitted operation     *)
(* carries the index -1.                                                   *)
C11_LookupFailureIsNoOp ==
  [][ ( /\ phase = "idle"
        /\ phase' = "dropped" )
      => /\ ItemGuardsFail'
              => /\ emitted' = <<>>
                 /\ computed' = <<>>
                 /\ availableColumns' = availableColumns
                 /\ selectedColumns' = selectedColumns
         /\ \A i \in 1..Len(emitted') : -1 \notin IndicesOf(emitted'[i]) ]_vars

C11_Witness ==
  /\ phase = "dropped"
  /\ selectedColumns = <<B, C>>
  /\ availableColumns = <<A>>
  /\ source = dragData(A, "selected")
  /\ dropTargets = <<itemTarget(B, "selected")>>
  /\ emitted = <<>>
  /\ computed = <<>>

(* C14: with the host applying every emitted operation, every column key   *)
(* stays in exactly one zone exactly once: the zones stay disjoint and     *)
(* duplicate-free and their union never changes.                           *)
C14_ColumnsInExactlyOneZone ==
  /\ [](/\ Range(availableColumns) \cap Range(selectedColumns) = {}
        /\ NoDuplicates(availableColumns)
        /\ NoDuplicates(selectedColumns))
  /\ [][ Range(availableColumns') \cup Range(selectedColumns')
           = Range(availableColumns) \cup Range(selectedColumns) ]_vars

C14_Witness ==
  /\ phase = "applied"
  /\ emitted = <<[type |-> "insert", column |-> D, source |-> "available",
                  destinationIndex |-> 1]>>
  /\ availableColumns = <<>>
  /\ selectedColumns = <<A, D, B, C>>

(* C16: every emitted reorder has both indices inside selectedColumns and  *)
(* different from each other; every emitted insert has its                 *)
(* destinationIndex inside selectedColumns, never at its end.              *)
C16_IndicesInRange ==
  phase = "dropped"
  => \A i \in 1..Len(emitted) :
       LET op == emitted[i]
           inRange == 0..(Len(selectedColumns) - 1)
       IN  /\ op.type = "reorder"
                => /\ op.oldIndex \in inRange
                   /\ op.newIndex \in inRange
                   /\ op.oldIndex # op.newIndex
           /\ op.type = "insert" => op.destinationIndex \in inRange

C16_Witness ==
  /\ phase = "dropped"
  /\ selectedColumns = <<A, B>>
  /\ source = dragData(D, "available")
  /\ dropTargets = <<itemTarget(B, "selected")>>
  /\ emitted = <<[type |-> "insert", column |-> D, source |-> "available",
                  destinationIndex |-> 1]>>

(* C17: only items of the selected zone are item-level targets: every item *)
(* descriptor among the resolved targets has sourceZone selected, a        *)
(* release over an available item resolves to the available zone alone,    *)
(* and a reorder or insert is only emitted for a release over a selected   *)
(* item.                                                                   *)
C17_OnlySelectedItemsAreTargets ==
  phase = "dropped"
  => /\ \A i \in 1..Len(dropTargets) :
          "type" \in DOMAIN dropTargets[i].data
            => dropTargets[i].data.sourceZone = "selected"
     /\ (pointer.over = "item" /\ pointer.zone = "available")
          => dropTargets = <<[data |-> [zoneId |-> "available-droppable"]]>>
     /\ \A i \in 1..Len(emitted) :
          emitted[i].type \in {"reorder", "insert"}
            => /\ pointer.over = "item"
               /\ pointer.zone = "selected"
               /\ pointer.column \in Range(selectedColumns)

C17_Witness ==
  /\ phase = "dropped"
  /\ availableColumns = <<C, D>>
  /\ selectedColumns = <<A, B>>
  /\ source = dragData(D, "available")
  /\ pointer = [over |-> "item", zone |-> "available", column |-> C]
  /\ dropTargets = <<zoneTarget("available")>>
  /\ emitted = <<[type |-> "move", column |-> D, source |-> "available"]>>

(* C18: an item's isDragging flag is set exactly while its own gesture is   *)
(* in flight, never for two items at once, and once the gesture has ended  *)
(* (drop on a target or release outside every target) no isDragging,       *)
(* isDraggedOver or isOver flag is left set.                               *)
C18_VisualStateFollowsGesture ==
  /\ isDragging = IF phase = "dragging"
                  THEN {[zone |-> source.sourceZone, id |-> source.id]}
                  ELSE {}
  /\ Cardinality(isDragging) <= 1
  /\ phase # "dragging" => isDraggedOver = {} /\ isOver = {}

C18_Witness ==
  /\ phase = "dropped"
  /\ selectedColumns = <<A, B>>
  /\ source = dragData(A, "selected")
  /\ pointer = [over |-> "item", zone |-> "selected", column |-> B]
  /\ Len(dropTargets) = 2
  /\ emitted # <<>>
  /\ isDragging = {}
  /\ isDraggedOver = {}
  /\ isOver = {}

----------------------------------------------------------------------------
(* The keyword labels in table order, and the word characters of the       *)
(* modelled alphabet.                                                      *)

ExpectedLabels ==
  <<
     "Age", "Sex", "LabValue", "PrimaryTumor", "Histology",
     "MolecularBiomarker", "GeneAlteration", "MolecularSignature",
     "DiagnosticFinding", "Metastases", "Comorbidity", "PriorTreatment",
     "CurrentTreatment", "TreatmentOption", "Contraindication",
     "ClinicalJudgement", "ReproductiveStatus", "Infection", "Symptom",
     "PerformanceStatus", "LifeExpectancy", "RequiredAction",
     "TissueAvailability", "Other", "And", "Or", "Not", "If", "Timing",
     "description", "finding", "method", "treatment"
  >>

WordCharacters == {"a", "_"}

WordIsEmpty ==
  \/ completion.pos = 0
  \/ completion.doc[completion.pos] \notin WordCharacters

(* C13: the completion source returns null exactly when the word before    *)
(* the cursor is empty and completion was not explicitly requested;        *)
(* otherwise from is the start of the run of word characters ending at the *)
(* cursor, options is the whole 33-entry keyword table in table order      *)
(* (29 functions, then 4 properties) and validFor accepts exactly the      *)
(* texts made of word characters.                                          *)
C13_CompletionResult ==
  (completion.used /\ completion.returned)
  => /\ completion.result = <<>> <=> (WordIsEmpty /\ ~completion.explicit)
     /\ completion.result # <<>>
          => LET result == completion.result[1]
                 doc == completion.doc
             IN  /\ Len(completion.result) = 1
                 /\ result.from \in 0..completion.pos
                 /\ \A i \in (result.from + 1)..completion.pos : doc[i] \in WordCharacters
                 /\ result.from = 0 \/ doc[result.from] \notin WordCharacters
                 /\ Len(result.options) = 33
                 /\ [i \in 1..33 |-> result.options[i].label] = ExpectedLabels
                 /\ \A i \in 1..33 :
                      result.options[i].type = IF i <= 29 THEN "function" ELSE "property"
                 /\ \A text \in SeqsUpTo(Chars, 2) :
                      regexTest(result.validFor, text)
                        <=> \A i \in 1..Len(text) : text[i] \in WordCharacters

C13_Witness ==
  /\ completion.used
  /\ completion.returned
  /\ completion.doc = <<"(", "a", "_">>
  /\ completion.pos = 3
  /\ ~completion.explicit
  /\ completion.result # <<>>
  /\ completion.result[1].from = 1
  /\ Len(completion.result[1].options) = 33

(* C12: a run of actin_curator.sh given the image and a directory of the   *)
(* user's choice leaves the input/ and output/ structure under that         *)
(* directory.                                                               *)
C12_RunCreatesStructureUnderChosenDirectory ==
  (script.used /\ script.pc = "exited" /\ script.argc = 2)
  => {in_dir(ChosenDir), out_dir(ChosenDir)} \subseteq script.dirs

(* C15: every step of actin_curator.sh is a gate for the next: the          *)
(* container is started only with exactly one argument, both directories    *)
(* present, criteria.txt in place and the key retrieved; jq runs only       *)
(* after the container exited with 0; a failed run ran no later step.       *)
C15_StepsAreGated ==
  script.used
  => /\ script.dockerStarted
          => /\ script.argc = 1
             /\ {in_dir(HomeDir), out_dir(HomeDir)} \subseteq script.dirs
             /\ in_dir(HomeDir) \in script.criteriaFiles
             /\ script.keyRetrieved
     /\ script.jqRan => script.dockerStarted /\ script.dockerExit = 0
     /\ (script.pc = "exited" /\ script.exitCode # 0) => ~script.jqRan

====
